---------------------------- MODULE Spec2Model ----------------------------
(***************************************************************************)
(* The message-bus envelope of monky-utilities: HybridObjectMapper,        *)
(* KafkaSerializer and KafkaDeserializer.                                  *)
(*                                                                         *)
(* A JSON tree (serde_json::Value) is a record tagged by t:                *)
(*   null, num (n), str (s: the UTF-8 bytes), arr (a: a sequence of        *)
(*   trees), obj (m: a function from keys, which are byte sequences, to    *)
(*   trees).  Text and buffers are sequences of bytes 0..255.              *)
(* A serializable value of type T is modelled by the tree its Serialize    *)
(* implementation produces, i.e. the model takes T = serde_json::Value.    *)
(***************************************************************************)
EXTENDS Integers, Sequences, FiniteSets, TLC

VARIABLES
    ser_mapper,   \* KafkaSerializer.mapper
    des_mapper,   \* KafkaDeserializer.mapper
    mapper,       \* a HybridObjectMapper used directly
    call,         \* "idle", or the operation that ran last
    type_name,    \* the Option<&str> handed to the last HybridObjectMapper.serialize
    data,         \* the value (tree) handed to the last encoding call
    bytes,        \* the byte buffer or text produced or consumed by the last call
    result,       \* the last decoding result: [ok, err, v]
    steps,        \* the stages the last KafkaDeserializer.deserialize went through
    env,          \* the environment variable MONKY_CORE_NAMESPACE: [set, val]
    env_start,    \* what env was when the process started
    env_read,     \* the values the initializer of MONKY_NAMESPACE read, in order
    MONKY_NAMESPACE,          \* the Lazy<String> cell: [state, value]
    DEFAULT_COMPACT_CONFIG,   \* the static map behind AppTopic::config
    receiver,     \* the topic the last name() or config() was called on
    tname,        \* the String the last name() returned
    tconfig,      \* the map the last config() returned, in the caller's hands
    earlier,      \* an earlier call the caller kept: [op, receiver, name, config, held]
    pc,           \* per thread: where its name() call stands
    frame,        \* per thread: its name() call's [receiver, prefix, name, via]
    serializer_config,   \* the Option<&HashMap> a caller has for with_specific_avro_enabled
    avro_given,   \* serializer_config as it was when the last call was made
    avro_config,  \* the map the last with_specific_avro_enabled returned
    pairs,        \* the pairs form_urlencoded::parse yields for the last payload
    dup_behavior, \* the DuplicateBehavior of the last parse_url_encoded
    parsed        \* the map the last parse_url_encoded returned

envelope_vars ==
    <<ser_mapper, des_mapper, mapper, call, type_name, data, bytes, result, steps>>
topic_vars ==
    <<env, env_start, env_read, MONKY_NAMESPACE, DEFAULT_COMPACT_CONFIG,
      receiver, tname, tconfig, earlier, pc, frame>>
util_vars ==
    <<serializer_config, avro_given, avro_config, pairs, dup_behavior, parsed>>
vars == <<envelope_vars, topic_vars, util_vars>>

---------------------------------------------------------------------------
(* JSON trees *)

JNull == [t |-> "null"]
JNum(n) == [t |-> "num", n |-> n]
JStr(s) == [t |-> "str", s |-> s]
JArr(a) == [t |-> "arr", a |-> a]
JObj(m) == [t |-> "obj", m |-> m]

\* "@type", "value", "k", "a", "b" and the reflected type name, as bytes
KeyType == <<64, 116, 121, 112, 101>>
KeyValue == <<118, 97, 108, 117, 101>>
KeyK == <<107>>
StrA == <<97>>
StrB == <<98>>
\* std::any::type_name::<T>() is some string fixed by T; abbreviated to "T"
TypeNameOfT == <<84>>

\* the header octet; its definition (crate::kafka::core::MONKY_MAGIC_BYTE) is
\* not among the sources, the decoder tests write 0 in its place
MONKY_MAGIC_BYTE == 0

---------------------------------------------------------------------------
(* remove_nulls *)

\* a remove_nulls that deletes from the array in place while it walks it, and
\* so steps over the element that follows each one it deletes
RECURSIVE remove_nulls_skipping(_)
remove_nulls_skipping(v) ==
    IF v.t = "obj" THEN
        LET cleaned == [k \in DOMAIN v.m |-> remove_nulls_skipping(v.m[k])]
            kept == {k \in DOMAIN v.m : cleaned[k].t # "null"}
        IN  JObj([k \in kept |-> cleaned[k]])
    ELSE IF v.t = "arr" THEN
        LET RECURSIVE Walk(_)
            Walk(a) ==
                IF a = <<>> THEN <<>>
                ELSE IF Head(a).t # "null" THEN <<Head(a)>> \o Walk(Tail(a))
                ELSE IF Len(a) = 1 THEN <<>>
                ELSE <<a[2]>> \o Walk(Tail(Tail(a)))
        IN  JArr(Walk([i \in 1..Len(v.a) |-> remove_nulls_skipping(v.a[i])]))
    ELSE v

\* a remove_nulls that also drops the containers it has emptied
RECURSIVE remove_nulls_dropempty(_)
remove_nulls_dropempty(v) ==
    LET Gone(c) == \/ c.t = "null"
                   \/ c.t = "arr" /\ c.a = <<>>
                   \/ c.t = "obj" /\ DOMAIN c.m = {}
    IN
    IF v.t = "obj" THEN
        LET cleaned == [k \in DOMAIN v.m |-> remove_nulls_dropempty(v.m[k])]
            kept == {k \in DOMAIN v.m : ~Gone(cleaned[k])}
        IN  JObj([k \in kept |-> cleaned[k]])
    ELSE IF v.t = "arr" THEN
        JArr(SelectSeq([i \in 1..Len(v.a) |-> remove_nulls_dropempty(v.a[i])],
                       LAMBDA c : ~Gone(c)))
    ELSE v

\* a remove_nulls that does not descend into the elements of an array
RECURSIVE remove_nulls_shallow(_)
remove_nulls_shallow(v) ==
    IF v.t = "obj" THEN
        LET cleaned == [k \in DOMAIN v.m |-> remove_nulls_shallow(v.m[k])]
            kept == {k \in DOMAIN v.m : cleaned[k].t # "null"}
        IN  JObj([k \in kept |-> cleaned[k]])
    ELSE IF v.t = "arr" THEN
        JArr(SelectSeq(v.a, LAMBDA c : c.t # "null"))
    ELSE v

RECURSIVE remove_nulls(_)
remove_nulls(v) ==
    IF v.t = "obj" THEN
        LET cleaned == [k \in DOMAIN v.m |-> remove_nulls(v.m[k])]
            kept == {k \in DOMAIN v.m : cleaned[k].t # "null"}
        IN  JObj([k \in kept |-> cleaned[k]])
    ELSE IF v.t = "arr" THEN
        JArr(SelectSeq([i \in 1..Len(v.a) |-> remove_nulls(v.a[i])],
                       LAMBDA c : c.t # "null"))
    ELSE v

---------------------------------------------------------------------------
(* serde_json's compact writer (to_string / to_writer) *)

RECURSIVE Digits(_)
Digits(n) == IF n < 10 THEN <<48 + n>> ELSE Digits(n \div 10) \o <<48 + (n % 10)>>

\* format_escaped_str: '"' and '\' are escaped; the strings of the model hold
\* no control character
RECURSIVE EscapeBytes(_)
EscapeBytes(s) ==
    IF s = <<>> THEN <<>>
    ELSE (IF Head(s) = 34 THEN <<92, 34>>
          ELSE IF Head(s) = 92 THEN <<92, 92>>
          ELSE <<Head(s)>>) \o EscapeBytes(Tail(s))

WriteString(s) == <<34>> \o EscapeBytes(s) \o <<34>>

\* the order of String (bytewise lexicographic), the order a Map iterates in
RECURSIVE KeyLess(_, _)
KeyLess(x, y) ==
    IF y = <<>> THEN FALSE
    ELSE IF x = <<>> THEN TRUE
    ELSE IF Head(x) # Head(y) THEN Head(x) < Head(y)
    ELSE KeyLess(Tail(x), Tail(y))

RECURSIVE SortedKeys(_)
SortedKeys(K) ==
    IF K = {} THEN <<>>
    ELSE LET least == CHOOSE k \in K : \A o \in K \ {k} : KeyLess(k, o)
         IN  <<least>> \o SortedKeys(K \ {least})

RECURSIVE to_string(_)
RECURSIVE WriteElems(_, _)
RECURSIVE WriteMembers(_, _, _)
WriteElems(a, i) ==
    IF i > Len(a) THEN <<>>
    ELSE (IF i > 1 THEN <<44>> ELSE <<>>) \o to_string(a[i]) \o WriteElems(a, i + 1)

WriteMembers(m, ks, i) ==
    IF i > Len(ks) THEN <<>>
    ELSE (IF i > 1 THEN <<44>> ELSE <<>>) \o WriteString(ks[i]) \o <<58>>
         \o to_string(m[ks[i]]) \o WriteMembers(m, ks, i + 1)

to_string(v) ==
    CASE v.t = "null" -> <<110, 117, 108, 108>>
      [] v.t = "num" -> Digits(v.n)
      [] v.t = "str" -> WriteString(v.s)
      [] v.t = "arr" -> <<91>> \o WriteElems(v.a, 1) \o <<93>>
      [] v.t = "obj" -> <<123>> \o WriteMembers(v.m, SortedKeys(DOMAIN v.m), 1) \o <<125>>

---------------------------------------------------------------------------
(* serde_json's reader (from_str) over the bytes of a valid &str.           *)
(* A parse step returns [ok, v, i]: success, the value read, the next       *)
(* position.                                                                *)

ParseErr == [ok |-> FALSE, v |-> JNull, i |-> 0]
ParseOk(v, i) == [ok |-> TRUE, v |-> v, i |-> i]

IsWs(b) == b \in {32, 9, 10, 13}
IsDigit(b) == b \in 48..57

RECURSIVE SkipWs(_, _)
SkipWs(s, i) == IF i <= Len(s) /\ IsWs(s[i]) THEN SkipWs(s, i + 1) ELSE i

HasAt(s, i, lit) ==
    /\ i + Len(lit) - 1 <= Len(s)
    /\ \A j \in 1..Len(lit) : s[i + j - 1] = lit[j]

\* the string whose opening quote is before position i
RECURSIVE ReadString(_, _, _)
ReadString(s, i, acc) ==
    IF i > Len(s) THEN ParseErr
    ELSE IF s[i] = 34 THEN ParseOk(acc, i + 1)
    ELSE IF s[i] = 92 THEN
        IF i + 1 <= Len(s) /\ s[i + 1] \in {34, 92}
        THEN ReadString(s, i + 2, Append(acc, s[i + 1]))
        ELSE ParseErr
    ELSE IF s[i] < 32 THEN ParseErr
    ELSE ReadString(s, i + 1, Append(acc, s[i]))

RECURSIVE ReadDigits(_, _, _)
ReadDigits(s, i, acc) ==
    IF i <= Len(s) /\ IsDigit(s[i])
    THEN ReadDigits(s, i + 1, acc * 10 + (s[i] - 48))
    ELSE ParseOk(JNum(acc), i)

\* an unsigned integer; a leading 0 may not be followed by a digit
ReadNumber(s, i) ==
    IF s[i] = 48
    THEN IF i + 1 <= Len(s) /\ IsDigit(s[i + 1]) THEN ParseErr ELSE ParseOk(JNum(0), i + 1)
    ELSE ReadDigits(s, i, 0)

RECURSIVE ParseValue(_, _)
RECURSIVE ReadElems(_, _, _)
RECURSIVE ReadMembers(_, _, _)

\* after an element: ',' and another element, or ']'
ReadElems(s, i0, acc) ==
    LET i == SkipWs(s, i0) IN
    IF i > Len(s) THEN ParseErr
    ELSE IF s[i] = 93 THEN ParseOk(JArr(acc), i + 1)
    ELSE IF s[i] = 44 THEN
        LET r == ParseValue(s, i + 1) IN
        IF r.ok THEN ReadElems(s, r.i, Append(acc, r.v)) ELSE ParseErr
    ELSE ParseErr

\* position i0 is where a key must start; a repeated key keeps its last value
ReadMembers(s, i0, acc) ==
    LET i == SkipWs(s, i0) IN
    IF i > Len(s) \/ s[i] # 34 THEN ParseErr
    ELSE LET k == ReadString(s, i + 1, <<>>) IN
         IF ~k.ok THEN ParseErr
         ELSE LET c == SkipWs(s, k.i) IN
              IF c > Len(s) \/ s[c] # 58 THEN ParseErr
              ELSE LET r == ParseValue(s, c + 1) IN
                   IF ~r.ok THEN ParseErr
                   ELSE LET m == [x \in DOMAIN acc \cup {k.v} |->
                                     IF x = k.v THEN r.v ELSE acc[x]]
                            e == SkipWs(s, r.i)
                        IN  IF e > Len(s) THEN ParseErr
                            ELSE IF s[e] = 125 THEN ParseOk(JObj(m), e + 1)
                            ELSE IF s[e] = 44 THEN ReadMembers(s, e + 1, m)
                            ELSE ParseErr

ParseValue(s, i0) ==
    LET i == SkipWs(s, i0) IN
    IF i > Len(s) THEN ParseErr
    ELSE IF s[i] = 110 THEN
        IF HasAt(s, i, <<110, 117, 108, 108>>) THEN ParseOk(JNull, i + 4) ELSE ParseErr
    ELSE IF s[i] = 34 THEN
        LET r == ReadString(s, i + 1, <<>>) IN
        IF r.ok THEN ParseOk(JStr(r.v), r.i) ELSE ParseErr
    ELSE IF IsDigit(s[i]) THEN ReadNumber(s, i)
    ELSE IF s[i] = 91 THEN
        LET j == SkipWs(s, i + 1) IN
        IF j <= Len(s) /\ s[j] = 93 THEN ParseOk(JArr(<<>>), j + 1)
        ELSE LET r == ParseValue(s, j) IN
             IF r.ok THEN ReadElems(s, r.i, <<r.v>>) ELSE ParseErr
    ELSE IF s[i] = 123 THEN
        LET j == SkipWs(s, i + 1) IN
        IF j <= Len(s) /\ s[j] = 125 THEN ParseOk(JObj(<<>>), j + 1)
        ELSE ReadMembers(s, j, <<>>)
    ELSE ParseErr

\* serde_json::from_str::<Value>: one value, then only whitespace
from_str(s) ==
    LET r == ParseValue(s, 1) IN
    IF r.ok /\ SkipWs(s, r.i) > Len(s) THEN r ELSE ParseErr

---------------------------------------------------------------------------
(* std::str::from_utf8: whether the bytes b[i..] are well-formed UTF-8 *)

IsCont(b, i) == i <= Len(b) /\ b[i] \in 128..191
InRange(b, i, lo, hi) == i <= Len(b) /\ b[i] \in lo..hi

RECURSIVE Utf8From(_, _)
Utf8From(b, i) ==
    IF i > Len(b) THEN TRUE
    ELSE IF b[i] < 128 THEN Utf8From(b, i + 1)
    ELSE IF b[i] \in 194..223 THEN IsCont(b, i + 1) /\ Utf8From(b, i + 2)
    ELSE IF b[i] \in 224..239 THEN
        /\ IF b[i] = 224 THEN InRange(b, i + 1, 160, 191)
           ELSE IF b[i] = 237 THEN InRange(b, i + 1, 128, 159)
           ELSE IsCont(b, i + 1)
        /\ IsCont(b, i + 2)
        /\ Utf8From(b, i + 3)
    ELSE IF b[i] \in 240..244 THEN
        /\ IF b[i] = 240 THEN InRange(b, i + 1, 144, 191)
           ELSE IF b[i] = 244 THEN InRange(b, i + 1, 128, 143)
           ELSE IsCont(b, i + 1)
        /\ IsCont(b, i + 2)
        /\ IsCont(b, i + 3)
        /\ Utf8From(b, i + 4)
    ELSE FALSE

from_utf8_ok(b) == Utf8From(b, 1)

---------------------------------------------------------------------------
(* HybridObjectMapper *)

TypeTagging == {"None", "Adjacent"}

\* Option<&str>
NoName == [some |-> FALSE, s |-> <<>>]
SomeName(s) == [some |-> TRUE, s |-> s]

Ok(v) == [ok |-> TRUE, err |-> "none", v |-> v]
Err(kind) == [ok |-> FALSE, err |-> kind, v |-> JNull]
NoResult == [ok |-> FALSE, err |-> "nothing", v |-> JNull]

DefaultMapper ==
    [type_tagging |-> "None", omit_null_values |-> TRUE, ignore_type_names |-> {}]

\* serde_json::to_value of a value that is given by its tree
to_value(value) == value

\* serde_json::from_value::<Value>
from_value(v) == Ok(v)

infer_type_name == TypeNameOfT

\* the adjacent-style wrapper {"@type": tn, "value": v}
Wrapped(tn, v) ==
    JObj([k \in {KeyType, KeyValue} |-> IF k = KeyType THEN JStr(tn) ELSE v])

to_json_value(m, value) ==
    IF m.omit_null_values THEN remove_nulls(to_value(value)) ELSE to_value(value)

\* add_ignored_type: HashSet::insert on the mapper's own set
add_ignored_type(m, name) ==
    [m EXCEPT !.ignore_type_names = m.ignore_type_names \cup {name}]

\* a filter that cleans the members and keeps the ignored keys
filter_dynamic_value_keepall(m, v) ==
    IF v.t = "obj" THEN
        JObj([k \in DOMAIN v.m |-> remove_nulls(v.m[k])])
    ELSE IF m.omit_null_values THEN remove_nulls(v) ELSE v

\* on an object: retain the keys not ignored, then put remove_nulls of each
\* member's value in its place; otherwise remove_nulls if the mapper omits nulls
filter_dynamic_value(m, v) ==
    IF v.t = "obj" THEN
        LET retained == DOMAIN v.m \ m.ignore_type_names
        IN  JObj([k \in retained |-> remove_nulls(v.m[k])])
    ELSE IF m.omit_null_values THEN remove_nulls(v) ELSE v

\* HybridObjectMapper::deserialize::<Value>
HybridObjectMapper_deserialize(m, s) ==
    LET r == from_str(s) IN IF r.ok THEN Ok(r.v) ELSE Err("Json")

\* a serialize that always reflects the type name and drops the caller's
HybridObjectMapper_serialize_inferred(m, value, tn) ==
    LET v == IF m.omit_null_values THEN remove_nulls(to_value(value)) ELSE to_value(value)
    IN  IF m.type_tagging = "Adjacent"
        THEN to_string(Wrapped(infer_type_name, v))
        ELSE to_string(v)

HybridObjectMapper_serialize(m, value, tn) ==
    LET v == IF m.omit_null_values THEN remove_nulls(to_value(value)) ELSE to_value(value)
    IN  IF m.type_tagging = "Adjacent"
        THEN to_string(Wrapped(IF tn.some THEN tn.s ELSE infer_type_name, v))
        ELSE to_string(v)

\* a decoder that unwraps only under the tag it expects
deserialize_with_type_checked(m, s) ==
    LET r == from_str(s) IN
    IF ~r.ok THEN Err("Json")
    ELSE IF r.v.t = "obj" THEN
        IF /\ KeyType \in DOMAIN r.v.m
           /\ r.v.m[KeyType] = JStr(TypeNameOfT)
           /\ KeyValue \in DOMAIN r.v.m
        THEN from_value(r.v.m[KeyValue])
        ELSE from_value(r.v)
    ELSE from_value(r.v)

\* a decoder that unwraps under an "@type" of any kind
deserialize_with_type_anytag(m, s) ==
    LET r == from_str(s) IN
    IF ~r.ok THEN Err("Json")
    ELSE IF r.v.t = "obj" THEN
        IF KeyType \in DOMAIN r.v.m /\ KeyValue \in DOMAIN r.v.m
        THEN from_value(r.v.m[KeyValue])
        ELSE from_value(r.v)
    ELSE from_value(r.v)

\* a decoder whose fall-through has lost the "@type" member
deserialize_with_type_striptag(m, s) ==
    LET r == from_str(s) IN
    IF ~r.ok THEN Err("Json")
    ELSE IF r.v.t = "obj" THEN
        IF KeyType \in DOMAIN r.v.m /\ r.v.m[KeyType].t = "str"
        THEN IF KeyValue \in DOMAIN r.v.m
             THEN from_value(r.v.m[KeyValue])
             ELSE from_value(JObj([k \in DOMAIN r.v.m \ {KeyType} |-> r.v.m[k]]))
        ELSE from_value(r.v)
    ELSE from_value(r.v)

deserialize_with_type(m, s) ==
    LET r == from_str(s) IN
    IF ~r.ok THEN Err("Json")
    ELSE IF r.v.t = "obj" THEN
        IF /\ KeyType \in DOMAIN r.v.m
           /\ r.v.m[KeyType].t = "str"
           /\ KeyValue \in DOMAIN r.v.m
        THEN from_value(r.v.m[KeyValue])
        ELSE from_value(r.v)
    ELSE from_value(r.v)

---------------------------------------------------------------------------
(* KafkaSerializer and KafkaDeserializer *)

\* a serializer whose fast path forgets the header
KafkaSerializer_serialize_noheader(m, topic, value) ==
    IF m.type_tagging = "None" /\ ~m.omit_null_values THEN
        to_string(to_value(value))
    ELSE IF m.type_tagging = "Adjacent" THEN
        <<MONKY_MAGIC_BYTE>> \o to_string(Wrapped(TypeNameOfT, to_json_value(m, value)))
    ELSE <<MONKY_MAGIC_BYTE>> \o to_string(to_json_value(m, value))

\* a serializer whose tagged path wraps the value as it is, nulls included
KafkaSerializer_serialize_rawwrap(m, topic, value) ==
    IF m.type_tagging = "None" /\ ~m.omit_null_values THEN
        <<MONKY_MAGIC_BYTE>> \o to_string(to_value(value))
    ELSE IF m.type_tagging = "Adjacent" THEN
        <<MONKY_MAGIC_BYTE>> \o to_string(Wrapped(TypeNameOfT, to_value(value)))
    ELSE <<MONKY_MAGIC_BYTE>> \o to_string(to_json_value(m, value))

KafkaSerializer_serialize(m, topic, value) ==
    IF m.type_tagging = "None" /\ ~m.omit_null_values THEN
        <<MONKY_MAGIC_BYTE>> \o to_string(to_value(value))
    ELSE IF m.type_tagging = "Adjacent" THEN
        <<MONKY_MAGIC_BYTE>> \o to_string(Wrapped(TypeNameOfT, to_json_value(m, value)))
    ELSE <<MONKY_MAGIC_BYTE>> \o to_string(to_json_value(m, value))

\* a decoder that wants two bytes
KafkaDeserializer_deserialize_short(m, topic, b) ==
    IF Len(b) < 2 THEN [res |-> Err("PayloadTooShort"), steps |-> <<"len">>]
    ELSE LET payload == SubSeq(b, 2, Len(b)) IN
         IF ~from_utf8_ok(payload)
         THEN [res |-> Err("InvalidUtf8"), steps |-> <<"len", "utf8">>]
         ELSE [res |-> deserialize_with_type(m, payload),
               steps |-> <<"len", "utf8", "json">>]

\* a decoder that reads the JSON off the bytes before it validates them
KafkaDeserializer_deserialize_jsonfirst(m, topic, b) ==
    IF Len(b) < 1 THEN [res |-> Err("PayloadTooShort"), steps |-> <<"len">>]
    ELSE LET payload == SubSeq(b, 2, Len(b))
             r == deserialize_with_type(m, payload)
         IN  IF ~r.ok THEN [res |-> r, steps |-> <<"len", "json">>]
             ELSE IF ~from_utf8_ok(payload)
             THEN [res |-> Err("InvalidUtf8"), steps |-> <<"len", "json", "utf8">>]
             ELSE [res |-> r, steps |-> <<"len", "json", "utf8">>]

\* a decoder that rejects a header other than the magic byte
KafkaDeserializer_deserialize_strict(m, topic, b) ==
    IF Len(b) < 1 THEN [res |-> Err("PayloadTooShort"), steps |-> <<"len">>]
    ELSE IF b[1] # MONKY_MAGIC_BYTE THEN [res |-> Err("Json"), steps |-> <<"len">>]
    ELSE LET payload == SubSeq(b, 2, Len(b)) IN
         IF ~from_utf8_ok(payload)
         THEN [res |-> Err("InvalidUtf8"), steps |-> <<"len", "utf8">>]
         ELSE [res |-> deserialize_with_type(m, payload),
               steps |-> <<"len", "utf8", "json">>]

\* a decoder that elides nulls from what it decoded if its mapper omits nulls
KafkaDeserializer_deserialize_omitting(m, topic, b) ==
    IF Len(b) < 1 THEN [res |-> Err("PayloadTooShort"), steps |-> <<"len">>]
    ELSE LET payload == SubSeq(b, 2, Len(b)) IN
         IF ~from_utf8_ok(payload)
         THEN [res |-> Err("InvalidUtf8"), steps |-> <<"len", "utf8">>]
         ELSE LET r == deserialize_with_type(m, payload) IN
              [res |-> IF r.ok /\ m.omit_null_values THEN Ok(remove_nulls(r.v)) ELSE r,
               steps |-> <<"len", "utf8", "json">>]

\* a decoder that refuses an empty topic
KafkaDeserializer_deserialize_topiccheck(m, topic, b) ==
    IF topic = "" THEN [res |-> Err("InvalidTopic"), steps |-> <<>>]
    ELSE IF Len(b) < 1 THEN [res |-> Err("PayloadTooShort"), steps |-> <<"len">>]
    ELSE LET payload == SubSeq(b, 2, Len(b)) IN
         IF ~from_utf8_ok(payload)
         THEN [res |-> Err("InvalidUtf8"), steps |-> <<"len", "utf8">>]
         ELSE [res |-> deserialize_with_type(m, payload),
               steps |-> <<"len", "utf8", "json">>]

\* [res, steps]: the result and the stages gone through (the length check, the
\* UTF-8 validation, the JSON decoding)
KafkaDeserializer_deserialize(m, topic, b) ==
    IF Len(b) < 1 THEN [res |-> Err("PayloadTooShort"), steps |-> <<"len">>]
    ELSE LET payload == SubSeq(b, 2, Len(b)) IN
         IF ~from_utf8_ok(payload)
         THEN [res |-> Err("InvalidUtf8"), steps |-> <<"len", "utf8">>]
         ELSE [res |-> deserialize_with_type(m, payload),
               steps |-> <<"len", "utf8", "json">>]

---------------------------------------------------------------------------
(* Topics: identity, name and configuration *)

\* Result<String, VarError> of env::var("MONKY_CORE_NAMESPACE")
Unset == [set |-> FALSE, val |-> ""]
SetTo(s) == [set |-> TRUE, val |-> s]

\* an initializer that appends the dot to whatever is set, the empty string too
MONKY_NAMESPACE_init_anyset(e) == IF e.set THEN e.val \o "." ELSE ""

\* the closure of MONKY_NAMESPACE
MONKY_NAMESPACE_init(e) == IF e.set /\ e.val # "" THEN e.val \o "." ELSE ""

\* once_cell::sync::Lazy<String>
Uninit == [state |-> "uninit", value |-> ""]
Running == [state |-> "running", value |-> ""]
Done(v) == [state |-> "done", value |-> v]

\* a cell that runs its initializer at every access
Lazy_force_uncached(cell, e) ==
    [cell |-> Done(MONKY_NAMESPACE_init(e)), read |-> <<e>>]

\* Lazy::force on one thread, AbstractTopic::namespace(): the initializer runs
\* if the cell is empty; read is what the initializer read off the environment
Lazy_force(cell, e) ==
    IF cell.state = "uninit"
    THEN [cell |-> Done(MONKY_NAMESPACE_init(e)), read |-> <<e>>]
    ELSE [cell |-> cell, read |-> <<>>]

\* a cell that lets every thread that finds it unfinished run the initializer
Lazy_claim_racy(cell) == cell.state # "done"

\* whether a thread that finds the cell unfinished is the one to initialize
\* it: the first one only, the others wait for it
Lazy_claim(cell) == cell.state = "uninit"

EmptyConfig == [k \in {} |-> ""]

\* the initializer of DEFAULT_COMPACT_CONFIG
DefaultCompactConfig ==
    [k \in {"cleanup.policy", "segment.bytes", "min.compaction.lag.ms"} |->
        CASE k = "cleanup.policy" -> "compact"
          [] k = "segment.bytes" -> "10485760"
          [] k = "min.compaction.lag.ms" -> "86400000"]

AppTopic_new(dataset_name) ==
    [type |-> "AppTopic", dataset_name |-> dataset_name, use_default_config |-> TRUE]

AppTopic_with_custom_config(dataset_name) ==
    [type |-> "AppTopic", dataset_name |-> dataset_name, use_default_config |-> FALSE]

SourceTopic_new(domain, dataset) ==
    [type |-> "SourceTopic", kind |-> "source", domain |-> domain, dataset |-> dataset]

OpsTopic_new(dataset_name) == [type |-> "OpsTopic", dataset_name |-> dataset_name]

\* any other implementor of the trait, with the trait's name() and config()
CustomTopic(kind, domain, dataset) ==
    [type |-> "Custom", kind |-> kind, domain |-> domain, dataset |-> dataset]

NoTopic == [type |-> "none"]

Topic_kind(t) ==
    CASE t.type = "AppTopic" -> "application"
      [] t.type = "OpsTopic" -> "ops"
      [] OTHER -> t.kind

Topic_domain(t) ==
    CASE t.type = "AppTopic" -> "communication"
      [] t.type = "OpsTopic" -> "application"
      [] OTHER -> t.domain

Topic_dataset(t) ==
    CASE t.type \in {"AppTopic", "OpsTopic"} -> t.dataset_name
      [] OTHER -> t.dataset

\* a name() that leaves the separators out
Topic_name_unseparated(ns, t) ==
    ns \o Topic_kind(t) \o Topic_domain(t) \o Topic_dataset(t)

\* Topic::name, given what AbstractTopic::namespace() returned
Topic_name(ns, t) ==
    ns \o Topic_kind(t) \o "." \o Topic_domain(t) \o "." \o Topic_dataset(t)

\* a config() that forgets the opt-out flag
Topic_config_noflag(t, shared) ==
    IF t.type = "AppTopic" THEN shared ELSE EmptyConfig

\* Topic::config; shared is DEFAULT_COMPACT_CONFIG, which is cloned
Topic_config(t, shared) ==
    IF t.type = "AppTopic" /\ t.use_default_config THEN shared ELSE EmptyConfig

\* HashMap::insert
Insert(map, k, v) == [x \in DOMAIN map \cup {k} |-> IF x = k THEN v ELSE map[x]]

\* a config() that hands out the static map itself: an insert reaches it
CallerInsert_aliased(t, shared, k, v) ==
    IF t.type = "AppTopic" /\ t.use_default_config THEN Insert(shared, k, v) ELSE shared

\* DEFAULT_COMPACT_CONFIG after the caller has inserted into the map that
\* config() of t returned: the map was a clone, the static is as it was
CallerInsert(t, shared, k, v) == shared

SPECIFIC_AVRO_READER_CONFIG == "specific.avro.reader"

\* a helper that leaves a value the input already has for the key
with_specific_avro_enabled_keep(sc) ==
    LET config == IF sc.some THEN sc.map ELSE EmptyConfig
    IN  IF SPECIFIC_AVRO_READER_CONFIG \in DOMAIN config
        THEN config
        ELSE Insert(config, SPECIFIC_AVRO_READER_CONFIG, "true")

\* sc is the Option<&HashMap>; the map is cloned, or a new one made
with_specific_avro_enabled(sc) ==
    LET config == IF sc.some THEN sc.map ELSE EmptyConfig
    IN  Insert(config, SPECIFIC_AVRO_READER_CONFIG, "true")

\* the catalog
app_channels == AppTopic_new("channels")
app_contacts == AppTopic_new("contacts")
app_messages == AppTopic_new("messages")
app_metadata == AppTopic_new("metadata")
\* a factory whose dataset follows the plural of its own name
app_read_receipts_plural == AppTopic_new("read-receipts")
app_read_receipts == AppTopic_new("read-receipt")
app_sources == AppTopic_new("sources")
app_tags == AppTopic_new("tags")
app_templates == AppTopic_new("templates")
app_users == AppTopic_new("users")
app_webhooks == AppTopic_new("webhooks")

source_facebook_events == SourceTopic_new("facebook", "events")
source_whatsapp_events == SourceTopic_new("whatsapp", "events")
source_viber_events == SourceTopic_new("viber", "events")
source_twilio_events == SourceTopic_new("twilio", "events")
source_google_events == SourceTopic_new("google", "events")

ops_components == OpsTopic_new("components")
ops_logs == OpsTopic_new("logs")

AppCatalog ==
    { app_channels, app_contacts, app_messages, app_metadata, app_read_receipts,
      app_sources, app_tags, app_templates, app_users, app_webhooks }
SourceCatalog ==
    { source_facebook_events, source_whatsapp_events, source_viber_events,
      source_twilio_events, source_google_events }
OpsCatalog == { ops_components, ops_logs }
Catalog == AppCatalog \cup SourceCatalog \cup OpsCatalog

---------------------------------------------------------------------------
(* The inputs of the model *)

MaxArrLen == 2
MaxRawLen == 3

Topics == {"t", "events"}
Keys == {KeyType, KeyValue, KeyK}
Scalars == {JNull, JNum(1), JStr(StrA)}

SeqsUpTo(S, n) == UNION {[1..k -> S] : k \in 0..n}
ArraysOver(S) == {JArr(a) : a \in SeqsUpTo(S, MaxArrLen)}
ObjectsOver(S) == {JObj(m) : m \in UNION {[K -> S] : K \in SUBSET Keys}}

\* the containers that occur as members and elements of the nested values
Kids ==
    Scalars \cup
    { JArr(<<JNull>>),
      JObj([k \in {KeyK} |-> JNull]),
      Wrapped(StrB, JNum(1)) }

Values ==
    Scalars \cup ArraysOver(Scalars) \cup ObjectsOver(Scalars)
            \cup ArraysOver(Kids) \cup ObjectsOver(Kids)

MapperConfigs ==
    [type_tagging : TypeTagging, omit_null_values : BOOLEAN, ignore_type_names : {{}}]

TypeNames == {NoName, SomeName(StrA), SomeName(StrB)}

\* bytes a buffer off the wire is made of: ill-formed UTF-8 (255; 195 and 169
\* apart), a two-byte character (195 169), JSON punctuation and a digit
RawBytes == {255, 195, 169, 34, 49, 91, 93, 44}
HeaderBytes == {MONKY_MAGIC_BYTE, 255}
Payloads == SeqsUpTo(RawBytes, MaxRawLen)
Buffers == {<<>>} \cup {<<h>> \o p : h \in HeaderBytes, p \in Payloads}

\* what MONKY_CORE_NAMESPACE may be: unset, empty, or a name
EnvValues == {Unset, SetTo(""), SetTo("acme"), SetTo("b")}

\* the string made of the characters cs
RECURSIVE Join(_)
Join(cs) == IF cs = <<>> THEN "" ELSE Head(cs) \o Join(Tail(cs))

\* components an implementor of Topic may return, character by character
ComponentChars == { <<"a">>, <<"a", "a">>, <<"a", ".", "a">> }
Components == {Join(cs) : cs \in ComponentChars}
HasDot(s) == \E cs \in ComponentChars : Join(cs) = s /\ \E i \in 1..Len(cs) : cs[i] = "."

CustomTopics == {CustomTopic(k, d, s) : k \in Components, d \in Components, s \in Components}

\* datasets handed to AppTopic::with_custom_config
CustomConfigTopics == {AppTopic_with_custom_config(d) : d \in {"messages", "audit"}}

MaxThreads == 2
Threads == 1..MaxThreads

\* via: how the call got at the cell ("fast", "init", "wait")
NoFrame == [receiver |-> NoTopic, prefix |-> "", name |-> "", via |-> "none"]

\* held: the map of an earlier config() as the caller has it by now
NoCall ==
    [op |-> "none", receiver |-> NoTopic, name |-> "",
     config |-> EmptyConfig, held |-> EmptyConfig]

\* Option<&HashMap<String, String>>
NoMap == [some |-> FALSE, map |-> EmptyConfig]
SomeMap(m) == [some |-> TRUE, map |-> m]

\* neither utility function has been called
NoUtil ==
    /\ serializer_config = NoMap
    /\ avro_given = NoMap
    /\ avro_config = EmptyConfig
    /\ pairs = <<>>
    /\ dup_behavior = "KeepLast"
    /\ parsed = EmptyConfig

\* no topic has been touched; the namespace cell is empty
NoTopicCalls ==
    /\ env_read = <<>>
    /\ MONKY_NAMESPACE = Uninit
    /\ DEFAULT_COMPACT_CONFIG = DefaultCompactConfig
    /\ receiver = NoTopic
    /\ tname = ""
    /\ tconfig = EmptyConfig
    /\ earlier = NoCall
    /\ pc = [t \in Threads |-> "idle"]
    /\ frame = [t \in Threads |-> NoFrame]

NoTopics ==
    /\ env = Unset
    /\ env_start = Unset
    /\ NoTopicCalls

---------------------------------------------------------------------------
(* The envelope: a serializer and a deserializer at the two ends of a topic. *)
(* call is "idle", or the operation that ran last; one record is in flight   *)
(* at a time.  The next-state relations state the guard call = "idle" before *)
(* they draw an operation's inputs.                                          *)

Idle ==
    /\ call = "idle"
    /\ type_name = NoName
    /\ data = JNull
    /\ bytes = <<>>
    /\ result = NoResult
    /\ steps = <<>>

\* KafkaSerializer::with_mapper, KafkaDeserializer::with_mapper
Init ==
    /\ ser_mapper \in MapperConfigs
    /\ des_mapper \in MapperConfigs
    /\ mapper = DefaultMapper
    /\ Idle
    /\ NoTopics
    /\ NoUtil

Serialize(topic, value) ==
    /\ call = "idle"
    /\ call' = "serialize"
    /\ data' = value
    /\ bytes' = KafkaSerializer_serialize(ser_mapper, topic, value)
    /\ result' = NoResult
    /\ steps' = <<>>
    /\ UNCHANGED <<ser_mapper, des_mapper, mapper, type_name>>
    /\ UNCHANGED <<topic_vars, util_vars>>

\* the consumer decodes the buffer the producer made
Deserialize(topic) ==
    /\ call = "serialize"
    /\ LET d == KafkaDeserializer_deserialize(des_mapper, topic, bytes) IN
        /\ result' = d.res
        /\ steps' = d.steps
    /\ call' = "deserialize"
    /\ UNCHANGED <<ser_mapper, des_mapper, mapper, type_name, data, bytes>>
    /\ UNCHANGED <<topic_vars, util_vars>>

\* the record is done with; the next call can be made
Commit ==
    /\ call # "idle"
    /\ call' = "idle"
    /\ type_name' = NoName
    /\ data' = JNull
    /\ bytes' = <<>>
    /\ result' = NoResult
    /\ steps' = <<>>
    /\ UNCHANGED <<ser_mapper, des_mapper, mapper>>
    /\ UNCHANGED <<topic_vars, util_vars>>

Next ==
    \/ call = "idle" /\ \E topic \in Topics, value \in Values : Serialize(topic, value)
    \/ \E topic \in Topics : Deserialize(topic)
    \/ Commit

Spec == Init /\ [][Next]_vars

---------------------------------------------------------------------------
(* The decoder alone, on buffers that no serializer of this library made *)

InitDecoder ==
    /\ ser_mapper = DefaultMapper
    /\ des_mapper \in MapperConfigs
    /\ mapper = DefaultMapper
    /\ Idle
    /\ NoTopics
    /\ NoUtil

Receive(topic, b) ==
    /\ call = "idle"
    /\ call' = "receive"
    /\ bytes' = b
    /\ LET d == KafkaDeserializer_deserialize(des_mapper, topic, b) IN
        /\ result' = d.res
        /\ steps' = d.steps
    /\ UNCHANGED <<ser_mapper, des_mapper, mapper, type_name, data>>
    /\ UNCHANGED <<topic_vars, util_vars>>

NextDecoder ==
    \/ call = "idle" /\ \E topic \in Topics, b \in Buffers : Receive(topic, b)
    \/ Commit

SpecDecoder == InitDecoder /\ [][NextDecoder]_vars

---------------------------------------------------------------------------
(* The mapper used directly *)

\* the strings a producer may have put under "@type"
TagStrings == {<<>>, StrA, StrB, TypeNameOfT}

\* the trees whose text is handed to deserialize_with_type
DecodeInputs == Values \cup {Wrapped(n, p) : n \in TagStrings, p \in Values}

InitMapper ==
    /\ ser_mapper = DefaultMapper
    /\ des_mapper = DefaultMapper
    /\ mapper \in MapperConfigs
    /\ Idle
    /\ NoTopics
    /\ NoUtil

MapperSerialize(value, tn) ==
    /\ call = "idle"
    /\ call' = "mapper_serialize"
    /\ type_name' = tn
    /\ data' = value
    /\ bytes' = HybridObjectMapper_serialize(mapper, value, tn)
    /\ UNCHANGED <<ser_mapper, des_mapper, mapper, result, steps>>
    /\ UNCHANGED <<topic_vars, util_vars>>

\* deserialize_with_type::<Value> on the text of the tree input
DeserializeWithType(input) ==
    /\ call = "idle"
    /\ call' = "deserialize_with_type"
    /\ data' = input
    /\ bytes' = to_string(input)
    /\ result' = deserialize_with_type(mapper, to_string(input))
    /\ UNCHANGED <<ser_mapper, des_mapper, mapper, type_name, steps>>
    /\ UNCHANGED <<topic_vars, util_vars>>

NextMapper ==
    \/ call = "idle" /\ \E value \in Values, tn \in TypeNames : MapperSerialize(value, tn)
    \/ call = "idle" /\ \E input \in DecodeInputs : DeserializeWithType(input)
    \/ Commit

SpecMapper == InitMapper /\ [][NextMapper]_vars

---------------------------------------------------------------------------
(* remove_nulls on its own: applied to a tree, then to its own output *)

InitNulls ==
    /\ ser_mapper = DefaultMapper
    /\ des_mapper = DefaultMapper
    /\ mapper = DefaultMapper
    /\ Idle
    /\ NoTopics
    /\ NoUtil

\* data is the tree handed in, result the tree that came out
RemoveNulls(value) ==
    /\ call = "idle"
    /\ call' = "remove_nulls"
    /\ data' = value
    /\ result' = Ok(remove_nulls(value))
    /\ UNCHANGED <<ser_mapper, des_mapper, mapper, type_name, bytes, steps>>
    /\ UNCHANGED <<topic_vars, util_vars>>

\* the output is handed in again
RemoveNullsAgain ==
    /\ call = "remove_nulls"
    /\ call' = "remove_nulls_again"
    /\ data' = result.v
    /\ result' = Ok(remove_nulls(result.v))
    /\ UNCHANGED <<ser_mapper, des_mapper, mapper, type_name, bytes, steps>>
    /\ UNCHANGED <<topic_vars, util_vars>>

NextNulls ==
    \/ call = "idle" /\ \E value \in Values : RemoveNulls(value)
    \/ RemoveNullsAgain
    \/ Commit

SpecNulls == InitNulls /\ [][NextNulls]_vars

---------------------------------------------------------------------------
(* Topic names: name() on one thread, with the environment changing under it *)

NoEnvelope ==
    /\ ser_mapper = DefaultMapper
    /\ des_mapper = DefaultMapper
    /\ mapper = DefaultMapper
    /\ Idle

\* the process starts with the variable at any of its values
InitName ==
    /\ NoEnvelope
    /\ env_start \in EnvValues
    /\ env = env_start
    /\ NoTopicCalls
    /\ NoUtil

\* std::env::set_var / remove_var, by this process
SetEnv(v) ==
    /\ v # env
    /\ env' = v
    /\ UNCHANGED <<env_start, env_read, MONKY_NAMESPACE, DEFAULT_COMPACT_CONFIG,
                   receiver, tname, tconfig, earlier, pc, frame>>
    /\ UNCHANGED <<envelope_vars, util_vars>>

\* t.name()
Name(t) ==
    /\ LET f == Lazy_force(MONKY_NAMESPACE, env) IN
        /\ MONKY_NAMESPACE' = f.cell
        /\ env_read' = env_read \o f.read
        /\ tname' = Topic_name(f.cell.value, t)
    /\ receiver' = t
    /\ call' = "name"
    /\ UNCHANGED <<env, env_start, DEFAULT_COMPACT_CONFIG, tconfig, earlier, pc, frame>>
    /\ UNCHANGED <<ser_mapper, des_mapper, mapper, type_name, data, bytes, result, steps>>
    /\ UNCHANGED util_vars

NextName ==
    \/ \E v \in EnvValues : SetEnv(v)
    \/ \E t \in Catalog \cup CustomTopics : Name(t)

SpecName == InitName /\ [][NextName]_vars

---------------------------------------------------------------------------
(* Topic names: first name() calls of several threads, step by step *)

NameReceivers == {app_messages, ops_logs}

InitThreads == InitName

\* thread t calls r.name() and comes to the cell
Enter(t, r) ==
    /\ pc[t] = "idle"
    /\ IF MONKY_NAMESPACE.state = "done" THEN
            /\ pc' = [pc EXCEPT ![t] = "format"]
            /\ frame' = [frame EXCEPT ![t] =
                   [receiver |-> r, prefix |-> MONKY_NAMESPACE.value,
                    name |-> "", via |-> "fast"]]
            /\ UNCHANGED MONKY_NAMESPACE
       ELSE IF Lazy_claim(MONKY_NAMESPACE) THEN
            /\ pc' = [pc EXCEPT ![t] = "init"]
            /\ frame' = [frame EXCEPT ![t] =
                   [receiver |-> r, prefix |-> "", name |-> "", via |-> "init"]]
            /\ MONKY_NAMESPACE' = Running
       ELSE
            /\ pc' = [pc EXCEPT ![t] = "wait"]
            /\ frame' = [frame EXCEPT ![t] =
                   [receiver |-> r, prefix |-> "", name |-> "", via |-> "wait"]]
            /\ UNCHANGED MONKY_NAMESPACE
    /\ UNCHANGED <<env, env_start, env_read, DEFAULT_COMPACT_CONFIG,
                   receiver, tname, tconfig, earlier>>
    /\ UNCHANGED <<envelope_vars, util_vars>>

\* the initializer runs on thread t: env::var and format!
ReadEnv(t) ==
    /\ pc[t] = "init"
    /\ env_read' = Append(env_read, env)
    /\ frame' = [frame EXCEPT ![t].prefix = MONKY_NAMESPACE_init(env)]
    /\ pc' = [pc EXCEPT ![t] = "publish"]
    /\ UNCHANGED <<env, env_start, MONKY_NAMESPACE, DEFAULT_COMPACT_CONFIG,
                   receiver, tname, tconfig, earlier>>
    /\ UNCHANGED <<envelope_vars, util_vars>>

\* the value is stored and the cell marked complete
Publish(t) ==
    /\ pc[t] = "publish"
    /\ MONKY_NAMESPACE' = Done(frame[t].prefix)
    /\ pc' = [pc EXCEPT ![t] = "format"]
    /\ UNCHANGED <<env, env_start, env_read, DEFAULT_COMPACT_CONFIG,
                   receiver, tname, tconfig, earlier, frame>>
    /\ UNCHANGED <<envelope_vars, util_vars>>

\* a thread that waited finds the cell complete
Wake(t) ==
    /\ pc[t] = "wait"
    /\ MONKY_NAMESPACE.state = "done"
    /\ frame' = [frame EXCEPT ![t].prefix = MONKY_NAMESPACE.value]
    /\ pc' = [pc EXCEPT ![t] = "format"]
    /\ UNCHANGED <<env, env_start, env_read, MONKY_NAMESPACE, DEFAULT_COMPACT_CONFIG,
                   receiver, tname, tconfig, earlier>>
    /\ UNCHANGED <<envelope_vars, util_vars>>

\* format! of the name; the call returns
Format(t) ==
    /\ pc[t] = "format"
    /\ frame' = [frame EXCEPT ![t].name = Topic_name(frame[t].prefix, frame[t].receiver)]
    /\ pc' = [pc EXCEPT ![t] = "done"]
    /\ UNCHANGED <<env, env_start, env_read, MONKY_NAMESPACE, DEFAULT_COMPACT_CONFIG,
                   receiver, tname, tconfig, earlier>>
    /\ UNCHANGED <<envelope_vars, util_vars>>

NextThreads ==
    \/ \E v \in EnvValues : SetEnv(v)
    \/ \E t \in Threads, r \in NameReceivers : Enter(t, r)
    \/ \E t \in Threads : ReadEnv(t)
    \/ \E t \in Threads : Publish(t)
    \/ \E t \in Threads : Wake(t)
    \/ \E t \in Threads : Format(t)

SpecThreads == InitThreads /\ [][NextThreads]_vars

---------------------------------------------------------------------------
(* The catalog: name() and config() of the well-known topics, called again   *)
(* and again by a caller that keeps, and writes to, what it was given         *)

CatalogEnv == {Unset, SetTo("acme")}
CatalogTopics == Catalog \cup CustomConfigTopics
InsertKeys == {"cleanup.policy", "retention.ms"}
InsertValues == {"delete"}

InitCatalog ==
    /\ NoEnvelope
    /\ env_start \in CatalogEnv
    /\ env = env_start
    /\ NoTopicCalls
    /\ NoUtil

\* t.config()
Config(t) ==
    /\ tconfig' = Topic_config(t, DEFAULT_COMPACT_CONFIG)
    /\ receiver' = t
    /\ call' = "config"
    /\ UNCHANGED <<env, env_start, env_read, MONKY_NAMESPACE, DEFAULT_COMPACT_CONFIG,
                   tname, earlier, pc, frame>>
    /\ UNCHANGED <<ser_mapper, des_mapper, mapper, type_name, data, bytes, result, steps>>
    /\ UNCHANGED util_vars

\* the caller keeps what the call just made returned
Keep ==
    /\ call \in {"name", "config"}
    /\ earlier = NoCall
    /\ earlier' = [op |-> call, receiver |-> receiver, name |-> tname,
                   config |-> tconfig, held |-> tconfig]
    /\ UNCHANGED <<env, env_start, env_read, MONKY_NAMESPACE, DEFAULT_COMPACT_CONFIG,
                   receiver, tname, tconfig, pc, frame>>
    /\ UNCHANGED <<envelope_vars, util_vars>>

\* the caller inserts into the map it kept from an earlier config()
CallerInserts(k, v) ==
    /\ earlier.op = "config"
    /\ earlier' = [earlier EXCEPT !.held = Insert(earlier.held, k, v)]
    /\ DEFAULT_COMPACT_CONFIG' =
           CallerInsert(earlier.receiver, DEFAULT_COMPACT_CONFIG, k, v)
    /\ UNCHANGED <<env, env_start, env_read, MONKY_NAMESPACE,
                   receiver, tname, tconfig, pc, frame>>
    /\ UNCHANGED <<envelope_vars, util_vars>>

\* the topic and what the last call returned go out of scope
Drop ==
    /\ call # "idle"
    /\ call' = "idle"
    /\ receiver' = NoTopic
    /\ tname' = ""
    /\ tconfig' = EmptyConfig
    /\ UNCHANGED <<env, env_start, env_read, MONKY_NAMESPACE, DEFAULT_COMPACT_CONFIG,
                   earlier, pc, frame>>
    /\ UNCHANGED <<ser_mapper, des_mapper, mapper, type_name, data, bytes, result, steps>>
    /\ UNCHANGED util_vars

NextCatalog ==
    \/ \E v \in CatalogEnv : SetEnv(v)
    \/ call = "idle" /\ \E t \in CatalogTopics : Name(t)
    \/ call = "idle" /\ \E t \in CatalogTopics : Config(t)
    \/ Keep
    \/ \E k \in InsertKeys, v \in InsertValues : CallerInserts(k, v)
    \/ Drop

SpecCatalog == InitCatalog /\ [][NextCatalog]_vars

---------------------------------------------------------------------------
(* with_specific_avro_enabled, on the map a caller has *)

AvroKeys == {SPECIFIC_AVRO_READER_CONFIG, "group.id", "schema.registry.url"}
AvroValues == {"true", "false", "g"}
AvroInputs ==
    {NoMap} \cup {SomeMap(m) : m \in UNION {[K -> AvroValues] : K \in SUBSET AvroKeys}}

InitAvro ==
    /\ NoEnvelope
    /\ NoTopics
    /\ serializer_config \in AvroInputs
    /\ avro_given = NoMap
    /\ avro_config = EmptyConfig
    /\ pairs = <<>>
    /\ dup_behavior = "KeepLast"
    /\ parsed = EmptyConfig

WithSpecificAvroEnabled ==
    /\ call = "idle"
    /\ call' = "with_specific_avro_enabled"
    /\ avro_given' = serializer_config
    /\ avro_config' = with_specific_avro_enabled(serializer_config)
    /\ UNCHANGED <<serializer_config, pairs, dup_behavior, parsed>>
    /\ UNCHANGED <<ser_mapper, des_mapper, mapper, type_name, data, bytes, result, steps>>
    /\ UNCHANGED topic_vars

\* the returned map goes out of scope
DropConfig ==
    /\ call = "with_specific_avro_enabled"
    /\ call' = "idle"
    /\ avro_given' = NoMap
    /\ avro_config' = EmptyConfig
    /\ UNCHANGED <<serializer_config, pairs, dup_behavior, parsed>>
    /\ UNCHANGED <<ser_mapper, des_mapper, mapper, type_name, data, bytes, result, steps>>
    /\ UNCHANGED topic_vars

NextAvro ==
    \/ WithSpecificAvroEnabled
    \/ DropConfig

SpecAvro == InitAvro /\ [][NextAvro]_vars

---------------------------------------------------------------------------
(* The mapper's filter for dynamic values, and its set of ignored names *)

IgnoreNames == {KeyK, KeyType}

\* mappers are made with an empty set of ignored names
InitFilter ==
    /\ ser_mapper = DefaultMapper
    /\ des_mapper = DefaultMapper
    /\ mapper \in MapperConfigs
    /\ Idle
    /\ NoTopics
    /\ NoUtil

AddIgnoredType(name) ==
    /\ call = "idle"
    /\ name \notin mapper.ignore_type_names
    /\ mapper' = add_ignored_type(mapper, name)
    /\ UNCHANGED <<ser_mapper, des_mapper, call, type_name, data, bytes, result, steps>>
    /\ UNCHANGED <<topic_vars, util_vars>>

FilterDynamicValue(v) ==
    /\ call = "idle"
    /\ call' = "filter_dynamic_value"
    /\ data' = v
    /\ result' = Ok(filter_dynamic_value(mapper, v))
    /\ UNCHANGED <<ser_mapper, des_mapper, mapper, type_name, bytes, steps>>
    /\ UNCHANGED <<topic_vars, util_vars>>

NextFilter ==
    \/ \E name \in IgnoreNames : AddIgnoredType(name)
    \/ call = "idle" /\ \E v \in Values : FilterDynamicValue(v)
    \/ Commit

SpecFilter == InitFilter /\ [][NextFilter]_vars

---------------------------------------------------------------------------
(* parse_url_encoded, on the pairs form_urlencoded::parse yields *)

DuplicateBehavior == {"KeepFirst", "KeepLast", "CollectCommaSeparated"}

\* one turn of the loop over the iterator, by the arm of the match
url_step_lastwins(map, k, v, d) ==
    [x \in DOMAIN map \cup {k} |-> IF x = k THEN v ELSE map[x]]

url_step(map, k, v, d) ==
    IF d = "KeepLast" THEN
        [x \in DOMAIN map \cup {k} |-> IF x = k THEN v ELSE map[x]]
    ELSE IF d = "KeepFirst" THEN
        IF k \in DOMAIN map THEN map
        ELSE [x \in DOMAIN map \cup {k} |-> IF x = k THEN v ELSE map[x]]
    ELSE
        IF k \in DOMAIN map THEN [map EXCEPT ![k] = (@ \o ",") \o v]
        ELSE [x \in DOMAIN map \cup {k} |-> IF x = k THEN v ELSE map[x]]

RECURSIVE url_fold(_, _, _)
url_fold(map, p, d) ==
    IF p = <<>> THEN map
    ELSE url_fold(url_step(map, Head(p)[1], Head(p)[2], d), Tail(p), d)

parse_url_encoded(p, d) == url_fold(EmptyConfig, p, d)

MaxPairs == 3
UrlKeys == {"k", "j"}
UrlValues == {"a", "b", ""}
UrlPairs == UNION {[1..n -> UrlKeys \X UrlValues] : n \in 0..MaxPairs}

InitUrl ==
    /\ NoEnvelope
    /\ NoTopics
    /\ NoUtil

ParseUrlEncoded(p, d) ==
    /\ call = "idle"
    /\ call' = "parse_url_encoded"
    /\ pairs' = p
    /\ dup_behavior' = d
    /\ parsed' = parse_url_encoded(p, d)
    /\ UNCHANGED <<serializer_config, avro_given, avro_config>>
    /\ UNCHANGED <<ser_mapper, des_mapper, mapper, type_name, data, bytes, result, steps>>
    /\ UNCHANGED topic_vars

\* the returned map goes out of scope
DropParsed ==
    /\ call = "parse_url_encoded"
    /\ call' = "idle"
    /\ pairs' = <<>>
    /\ dup_behavior' = "KeepLast"
    /\ parsed' = EmptyConfig
    /\ UNCHANGED <<serializer_config, avro_given, avro_config>>
    /\ UNCHANGED <<ser_mapper, des_mapper, mapper, type_name, data, bytes, result, steps>>
    /\ UNCHANGED topic_vars

NextUrl ==
    \/ call = "idle" /\ \E p \in UrlPairs, d \in DuplicateBehavior : ParseUrlEncoded(p, d)
    \/ DropParsed

SpecUrl == InitUrl /\ [][NextUrl]_vars

---------------------------------------------------------------------------
(* Properties of the envelope *)

RECURSIVE ContainsNull(_)
ContainsNull(v) ==
    \/ v.t = "null"
    \/ v.t = "arr" /\ \E i \in 1..Len(v.a) : ContainsNull(v.a[i])
    \/ v.t = "obj" /\ \E k \in DOMAIN v.m : ContainsNull(v.m[k])

\* null-elision per the mapper's settings
Normalize(m, v) == IF m.omit_null_values THEN remove_nulls(v) ELSE v

HasStringTag(v) == v.t = "obj" /\ KeyType \in DOMAIN v.m /\ v.m[KeyType].t = "str"
IsWrapper(v) == HasStringTag(v) /\ DOMAIN v.m = {KeyType, KeyValue}

\* C1: under every mapper configuration the buffer KafkaSerializer.serialize
\* returns starts with MONKY_MAGIC_BYTE.
C1_HeaderIsMagic ==
    call = "serialize" => Len(bytes) >= 1 /\ bytes[1] = MONKY_MAGIC_BYTE

C1_FastPathHeader ==
    /\ call = "serialize"
    /\ ser_mapper.type_tagging = "None"
    /\ ~ser_mapper.omit_null_values
    /\ data.t = "obj"
    /\ bytes[1] = MONKY_MAGIC_BYTE

\* C2: round trip: for a value with no null at any depth, and every encoder
\* configuration, deserialize(serialize(v)) is to_json_value(v).
C2_RoundTrip ==
    (call = "deserialize" /\ ~ContainsNull(data))
        => result = Ok(to_json_value(ser_mapper, data))

\* C3: for any value, nulls allowed, deserialize(serialize(v)) is v normalized per
\* the encoder's omit-nulls flag, in both tagging modes.
C3_DecodeEncodeNormalizes ==
    call = "deserialize" => result = Ok(Normalize(ser_mapper, data))

\* C4: deserialize_with_type on {"@type": n, "value": P} returns the decoding of
\* P, whatever the string n is.
C4_AdjacentUnwrap ==
    (call = "deserialize_with_type" /\ IsWrapper(data)) =>
        /\ result = HybridObjectMapper_deserialize(mapper, to_string(data.m[KeyValue]))
        /\ result = Ok(data.m[KeyValue])
        /\ \A n \in TagStrings :
              deserialize_with_type(mapper, to_string(Wrapped(n, data.m[KeyValue]))) = result

C4_NestedWrapperUnwrappedOnce ==
    /\ call = "deserialize_with_type"
    /\ IsWrapper(data)
    /\ data.m[KeyType] = JStr(StrB)
    /\ IsWrapper(data.m[KeyValue])
    /\ result = Ok(data.m[KeyValue])

\* C5: an empty buffer fails with PayloadTooShort after the length check alone (no
\* UTF-8 validation, no JSON parsing), and no other buffer gives PayloadTooShort.
C5_EmptyIsTooShort ==
    call = "receive" =>
        /\ Len(bytes) = 0 => result = Err("PayloadTooShort") /\ steps = <<"len">>
        /\ result.err = "PayloadTooShort" => Len(bytes) = 0

C5_EmptyReceived ==
    call = "receive" /\ bytes = <<>> /\ result.err = "PayloadTooShort"

\* C6: for a non-empty buffer, bytes[1..] that are not UTF-8 give InvalidUtf8;
\* UTF-8 that is no JSON value (the empty payload too) gives Json; else Ok.
C6_Utf8ThenJson ==
    (call = "receive" /\ Len(bytes) >= 1) =>
        LET payload == Tail(bytes) IN
        IF ~from_utf8_ok(payload) THEN result.err = "InvalidUtf8"
        ELSE IF ~from_str(payload).ok THEN result.err = "Json"
        ELSE result.ok

C6_BrokenUtf8AfterJsonStart ==
    /\ call = "receive"
    /\ Len(bytes) >= 3
    /\ bytes[2] = 91
    /\ ~from_utf8_ok(Tail(bytes))
    /\ result.err = "InvalidUtf8"

\* headers the decoder is tried with
ProbeHeaders == {0, 1, 34, 91, 123, 128, 255}

\* C7: the result of deserialize is the same for every value of byte 0.
C7_HeaderIgnored ==
    (call = "receive" /\ Len(bytes) >= 1) =>
        \A h \in ProbeHeaders :
            KafkaDeserializer_deserialize(des_mapper, "t", <<h>> \o Tail(bytes)).res = result

C7_OtherHeaderDecoded ==
    /\ call = "receive"
    /\ Len(bytes) >= 2
    /\ bytes[1] # MONKY_MAGIC_BYTE
    /\ result.ok

\* C8: an object with a string "@type" and no "value" is decoded in full, "@type"
\* included.
C8_Fallthrough ==
    (call = "deserialize_with_type" /\ HasStringTag(data) /\ KeyValue \notin DOMAIN data.m)
        => result = Ok(data)

C8_TagOnlyObject ==
    /\ call = "deserialize_with_type"
    /\ HasStringTag(data)
    /\ DOMAIN data.m = {KeyType, KeyK}
    /\ result = Ok(data)

\* C9: an object with "@type", "value" and at least one other member is not taken
\* for a wrapper: it is decoded in full.
C9_ExtraMemberFallsThrough ==
    (/\ call = "deserialize_with_type"
     /\ data.t = "obj"
     /\ {KeyType, KeyValue} \subseteq DOMAIN data.m
     /\ DOMAIN data.m # {KeyType, KeyValue})
        => result = Ok(data)

\* C10: with Adjacent tagging, serialize(value, Some(tn)) is the text of an object
\* of exactly two members, "@type" = tn and "value" = the tree of value, null-elided
\* when omit-nulls is set; with tagging None it is the text of that tree.
C10_SerializeShape ==
    call = "mapper_serialize" =>
        LET p == from_str(bytes)
            tree == IF mapper.omit_null_values THEN remove_nulls(data) ELSE data
        IN  /\ p.ok
            /\ mapper.type_tagging = "None" => p.v = tree
            /\ (mapper.type_tagging = "Adjacent" /\ type_name.some) =>
                  /\ p.v.t = "obj"
                  /\ DOMAIN p.v.m = {KeyType, KeyValue}
                  /\ p.v.m[KeyType] = JStr(type_name.s)
                  /\ p.v.m[KeyValue] = tree

C10_TaggedWithCallersName ==
    /\ call = "mapper_serialize"
    /\ mapper.type_tagging = "Adjacent"
    /\ mapper.omit_null_values
    /\ type_name = SomeName(StrA)
    /\ data.t = "obj"
    /\ ContainsNull(data)
    /\ from_str(bytes).v = Wrapped(StrA, remove_nulls(data))

\* C11: under each of the four mapper configurations the bytes after the header
\* of KafkaSerializer.serialize(topic, v) parse to the same JSON tree as the
\* text HybridObjectMapper.serialize(v, None) returns, so the fast path, the
\* tagged path and the default path agree with the mapper.
C11_PathsAgreeWithMapper ==
    call = "serialize" =>
        LET wire == from_str(Tail(bytes))
            text == from_str(HybridObjectMapper_serialize(ser_mapper, data, NoName))
        IN  wire.ok /\ text.ok /\ wire.v = text.v

C11_TaggedPathElidesNulls ==
    /\ call = "serialize"
    /\ ser_mapper.type_tagging = "Adjacent"
    /\ ser_mapper.omit_null_values
    /\ data.t = "obj" /\ KeyK \in DOMAIN data.m /\ data.m[KeyK].t = "null"
    /\ from_str(Tail(bytes)).v = Wrapped(TypeNameOfT, remove_nulls(data))
    /\ from_str(Tail(bytes)).v
           = from_str(HybridObjectMapper_serialize(ser_mapper, data, NoName)).v

\* C12: remove_nulls is idempotent: applied to its own output it returns that
\* output, for every tree.
C12_Idempotent ==
    call = "remove_nulls_again" => result = Ok(data)

C12_EmptiedArrayStaysPut ==
    /\ call = "remove_nulls_again"
    /\ data = JObj([k \in {KeyK} |-> JArr(<<>>)])
    /\ result.v = data

\* the number of arrays and objects in a tree
RECURSIVE Containers(_)
RECURSIVE SumOver(_, _)
SumOver(f, S) ==
    IF S = {} THEN 0
    ELSE LET x == CHOOSE y \in S : TRUE IN Containers(f[x]) + SumOver(f, S \ {x})
Containers(v) ==
    IF v.t = "obj" THEN 1 + SumOver(v.m, DOMAIN v.m)
    ELSE IF v.t = "arr" THEN 1 + SumOver(v.a, DOMAIN v.a)
    ELSE 0

\* a non-empty container all of whose children are null
AllNull(c) ==
    \/ c.t = "arr" /\ c.a # <<>> /\ \A i \in 1..Len(c.a) : c.a[i].t = "null"
    \/ c.t = "obj" /\ DOMAIN c.m # {} /\ \A k \in DOMAIN c.m : c.m[k].t = "null"

Emptied(c) == IF c.t = "arr" THEN JArr(<<>>) ELSE JObj(<<>>)

\* C13: remove_nulls keeps empties: {} stays {}, [] stays [], and a nested
\* container that becomes empty because all its children were null is kept, as
\* an empty container; no container is dropped at any depth.
C13_EmptyContainersKept ==
    call = "remove_nulls" =>
        /\ data = JObj(<<>>) => result.v = JObj(<<>>)
        /\ data = JArr(<<>>) => result.v = JArr(<<>>)
        /\ data.t = "obj" =>
              \A k \in DOMAIN data.m :
                  AllNull(data.m[k]) =>
                      /\ k \in DOMAIN result.v.m
                      /\ result.v.m[k] = Emptied(data.m[k])
        /\ (data.t = "arr" /\ \A i \in 1..Len(data.a) : AllNull(data.a[i])) =>
              result.v = JArr([i \in 1..Len(data.a) |-> Emptied(data.a[i])])
        /\ Containers(result.v) = Containers(data)

C13_NestedArrayEmptied ==
    /\ call = "remove_nulls"
    /\ data = JObj([k \in {KeyK} |-> JArr(<<JNull>>)])
    /\ result.v = JObj([k \in {KeyK} |-> JArr(<<>>)])

\* no member value and no array element of v, at any depth, is null
RECURSIVE NoNullInside(_)
NoNullInside(v) ==
    /\ v.t = "obj" =>
          \A k \in DOMAIN v.m : v.m[k].t # "null" /\ NoNullInside(v.m[k])
    /\ v.t = "arr" =>
          \A i \in 1..Len(v.a) : v.a[i].t # "null" /\ NoNullInside(v.a[i])

\* r is t with null members and null elements taken out and nothing else
\* touched: the members left keep their keys, the elements left their order
RECURSIVE IsElision(_, _)
IsElision(t, r) ==
    IF t.t = "obj" THEN
        /\ r.t = "obj"
        /\ DOMAIN r.m \subseteq DOMAIN t.m
        /\ \A k \in DOMAIN t.m :
              IF k \in DOMAIN r.m
              THEN t.m[k].t # "null" /\ IsElision(t.m[k], r.m[k])
              ELSE t.m[k].t = "null"
    ELSE IF t.t = "arr" THEN
        LET left == SelectSeq([i \in 1..Len(t.a) |-> i], LAMBDA i : t.a[i].t # "null")
        IN  /\ r.t = "arr"
            /\ Len(r.a) = Len(left)
            /\ \A j \in 1..Len(left) : IsElision(t.a[left[j]], r.a[j])
    ELSE r = t

\* C14: remove_nulls(t) has no null as a member value or an array element at
\* any depth, and differs from t in nothing else: scalars other than null are
\* unchanged, surviving keys keep their names, surviving elements their order.
C14_RemovesExactlyTheNulls ==
    call = "remove_nulls" => NoNullInside(result.v) /\ IsElision(data, result.v)

C14_NullsAtTwoDepths ==
    /\ call = "remove_nulls"
    /\ data = JArr(<<JObj([k \in {KeyK} |-> JNull]), JNull>>)
    /\ result.v = JArr(<<JObj(<<>>)>>)

---------------------------------------------------------------------------
(* Properties of the topics *)

\* C15: name() is P.kind.domain.dataset when the namespace P is set and not
\* empty, and kind.domain.dataset, with no leading dot, otherwise; with P the
\* value the namespace was read as.  For the messages topic of the application
\* family: acme.application.communication.messages under "acme", and
\* application.communication.messages without a namespace.
C15_NameComposition ==
    call = "name" =>
        /\ Len(env_read) >= 1
        /\ LET P == env_read[1]
               bare == Topic_kind(receiver) \o "." \o Topic_domain(receiver)
                           \o "." \o Topic_dataset(receiver)
           IN  /\ (P.set /\ P.val # "") => tname = P.val \o "." \o bare
               /\ ~(P.set /\ P.val # "") => tname = bare
               /\ (receiver = app_messages /\ P = SetTo("acme"))
                      => tname = "acme.application.communication.messages"
               /\ (receiver = app_messages /\ P \in {Unset, SetTo("")})
                      => tname = "application.communication.messages"

C15_EmptyNamespaceNoDot ==
    /\ call = "name"
    /\ env_read = <<SetTo("")>>
    /\ receiver = source_twilio_events
    /\ tname = "source.twilio.events"

\* C16 as stated: the prefix every name() uses is the value the variable had
\* at process start.
C16_PrefixOfProcessStart ==
    call = "name" => tname = Topic_name(MONKY_NAMESPACE_init(env_start), receiver)

\* C16: the prefix every name() uses is the value MONKY_CORE_NAMESPACE had when
\* name() was first called: it is read once, then, and cached, so no change to
\* the variable after the first name() call changes what a name() returns.
C16_PrefixOfFirstCall ==
    call = "name" =>
        /\ Len(env_read) = 1
        /\ MONKY_NAMESPACE = Done(MONKY_NAMESPACE_init(env_read[1]))
        /\ tname = Topic_name(MONKY_NAMESPACE_init(env_read[1]), receiver)

C16_ChangedBeforeAndAfterFirstCall ==
    /\ call = "name"
    /\ env_start = Unset
    /\ env_read = <<SetTo("acme")>>
    /\ env = SetTo("b")
    /\ receiver = ops_logs
    /\ tname = "acme.ops.application.logs"

\* C17: publish-once under concurrency: in every interleaving of first name()
\* calls on several threads and changes of the variable, the variable is read
\* exactly once, no call gets a prefix other than the published one (none
\* gets the empty cell's), and the name() calls of all threads use one prefix.
C17_PublishOnce ==
    /\ Len(env_read) <= 1
    /\ \A t \in Threads :
          pc[t] \in {"format", "done"} =>
              /\ Len(env_read) = 1
              /\ MONKY_NAMESPACE = Done(MONKY_NAMESPACE_init(env_read[1]))
              /\ frame[t].prefix = MONKY_NAMESPACE.value
    /\ \A t \in Threads :
          pc[t] = "done" =>
              frame[t].name = Topic_name(MONKY_NAMESPACE_init(env_read[1]), frame[t].receiver)
    /\ \A t, u \in Threads :
          (pc[t] \in {"format", "done"} /\ pc[u] \in {"format", "done"})
              => frame[t].prefix = frame[u].prefix

C17_WaiterGetsPublishedPrefix ==
    /\ \A t \in Threads : pc[t] = "done"
    /\ \E t, u \in Threads :
          /\ frame[t].via = "init" /\ frame[u].via = "wait"
          /\ frame[t].name = "acme.application.communication.messages"
          /\ frame[u].name = "acme.ops.application.logs"
    /\ env_read = <<SetTo("acme")>>
    /\ env = SetTo("b")

CompactConfig ==
    ("cleanup.policy" :> "compact") @@ ("segment.bytes" :> "10485760")
        @@ ("min.compaction.lag.ms" :> "86400000")

\* C18: config() of every topic made by AppTopic::new is exactly cleanup.policy
\* = compact, segment.bytes = 10485760, min.compaction.lag.ms = 86400000; of a
\* topic made by AppTopic::with_custom_config it is the empty map; of every
\* source-events and ops topic it is the empty map.
C18_ConfigByFamily ==
    call = "config" =>
        /\ receiver \in AppCatalog => tconfig = CompactConfig
        /\ (receiver.type = "AppTopic" /\ receiver.use_default_config)
              => /\ DOMAIN tconfig = {"cleanup.policy", "segment.bytes", "min.compaction.lag.ms"}
                 /\ tconfig["cleanup.policy"] = "compact"
                 /\ tconfig["segment.bytes"] = "10485760"
                 /\ tconfig["min.compaction.lag.ms"] = "86400000"
        /\ receiver \in CustomConfigTopics => tconfig = EmptyConfig
        /\ receiver \in SourceCatalog \cup OpsCatalog => tconfig = EmptyConfig

C18_OptOutIsEmpty ==
    /\ call = "config"
    /\ receiver = AppTopic_with_custom_config("messages")
    /\ DOMAIN tconfig = {}
    /\ earlier.op = "config"
    /\ earlier.receiver = app_messages
    /\ earlier.config = CompactConfig

\* C19: for every catalog factory, two calls return topics whose name() are
\* equal and whose config() are equal, whatever happened between the two:
\* changes of the environment, calls on other topics, the caller writing to
\* the map an earlier config() gave it (config() returns a snapshot by value,
\* and a write to it does not reach the shared default map).
C19_StableNamesAndConfigs ==
    /\ (call = "name" /\ earlier.op = "name" /\ earlier.receiver = receiver)
          => tname = earlier.name
    /\ (call = "config" /\ earlier.op = "config" /\ earlier.receiver = receiver)
          => tconfig = earlier.config
    /\ DEFAULT_COMPACT_CONFIG = CompactConfig

C19_CallerWroteToEarlierMap ==
    /\ call = "config"
    /\ receiver = app_users
    /\ earlier.op = "config"
    /\ earlier.receiver = app_users
    /\ earlier.held = Insert(Insert(CompactConfig, "cleanup.policy", "delete"),
                             "retention.ms", "delete")
    /\ tconfig = CompactConfig
    /\ env # env_start

Triple(t) == <<Topic_kind(t), Topic_domain(t), Topic_dataset(t)>>

\* for the topics made of Components
DotFree(t) == ~HasDot(t.kind) /\ ~HasDot(t.domain) /\ ~HasDot(t.dataset)

\* C20 as stated: under the prefix in force, a topic whose triple of non-empty
\* ASCII strings differs from the receiver's has a name that differs from the
\* name the receiver's name() returned.
C20_DistinctTriplesDistinctNames ==
    (call = "name" /\ receiver \in CustomTopics) =>
        \A t \in CustomTopics :
            Triple(t) # Triple(receiver)
                => Topic_name(MONKY_NAMESPACE.value, t) # tname

\* C20: with the environment fixed name() is deterministic, and distinct
\* triples of non-empty ASCII strings none of which contains a "." have
\* distinct names.
C20_DotFreeTriplesDistinctNames ==
    (call = "name" /\ receiver \in CustomTopics) =>
        /\ \A t \in CustomTopics :
              Triple(t) = Triple(receiver)
                  => Topic_name(MONKY_NAMESPACE.value, t) = tname
        /\ \A t \in CustomTopics :
              (DotFree(receiver) /\ DotFree(t) /\ Triple(t) # Triple(receiver))
                  => Topic_name(MONKY_NAMESPACE.value, t) # tname

C20_DotFreeNeighbours ==
    /\ call = "name"
    /\ receiver = CustomTopic("a", "aa", "a")
    /\ tname = "acme.a.aa.a"
    /\ Topic_name(MONKY_NAMESPACE.value, CustomTopic("aa", "a", "a")) = "acme.aa.a.a"
    /\ DotFree(receiver)
    /\ ~DotFree(CustomTopic("a.a", "a", "a"))

\* the names the catalog is stated to have
StatedName ==
    (app_channels :> "application.communication.channels")
    @@ (app_contacts :> "application.communication.contacts")
    @@ (app_messages :> "application.communication.messages")
    @@ (app_metadata :> "application.communication.metadata")
    @@ (app_read_receipts :> "application.communication.read-receipt")
    @@ (app_sources :> "application.communication.sources")
    @@ (app_tags :> "application.communication.tags")
    @@ (app_templates :> "application.communication.templates")
    @@ (app_users :> "application.communication.users")
    @@ (app_webhooks :> "application.communication.webhooks")
    @@ (source_facebook_events :> "source.facebook.events")
    @@ (source_whatsapp_events :> "source.whatsapp.events")
    @@ (source_viber_events :> "source.viber.events")
    @@ (source_twilio_events :> "source.twilio.events")
    @@ (source_google_events :> "source.google.events")
    @@ (ops_components :> "ops.application.components")
    @@ (ops_logs :> "ops.application.logs")

StatedNames ==
    { "application.communication.channels", "application.communication.contacts",
      "application.communication.messages", "application.communication.metadata",
      "application.communication.read-receipt", "application.communication.sources",
      "application.communication.tags", "application.communication.templates",
      "application.communication.users", "application.communication.webhooks",
      "source.facebook.events", "source.whatsapp.events", "source.viber.events",
      "source.twilio.events", "source.google.events",
      "ops.application.components", "ops.application.logs" }

\* C21: with the namespace unset the factories yield the names
\* application.communication.{channels, contacts, messages, metadata,
\* read-receipt, sources, tags, templates, users, webhooks},
\* source.{facebook, whatsapp, viber, twilio, google}.events and
\* ops.application.{components, logs}; the 17 names are pairwise distinct and
\* no factory yields another name.
C21_CatalogIsTheStatedSet ==
    (call = "name" /\ receiver \in Catalog /\ env_read = <<Unset>>) =>
        /\ tname \in StatedNames
        /\ tname = StatedName[receiver]
        /\ \A t \in Catalog \ {receiver} :
              Topic_name(MONKY_NAMESPACE.value, t) # tname
        /\ {Topic_name(MONKY_NAMESPACE.value, t) : t \in Catalog} = StatedNames
        /\ Cardinality(StatedNames) = 17
        /\ Cardinality(Catalog) = 17

C21_ReadReceiptNamed ==
    /\ call = "name"
    /\ receiver = app_read_receipts
    /\ env_read = <<Unset>>
    /\ tname = "application.communication.read-receipt"

---------------------------------------------------------------------------
(* Further properties of the envelope and the mapper *)

\* topic strings of every sort: empty, plain, dotted, with blanks
ProbeTopics == {"", "t", "events", "a.b", "no such topic"}

\* buffers off the wire: empty, header only, ill-formed UTF-8, a number, an
\* array under a foreign header, an unfinished string
ProbeBuffers == {<<>>, <<0>>, <<0, 255>>, <<0, 49>>, <<255, 91, 93>>, <<0, 34>>}

\* C22: the topic argument has no influence: for the same value, serialize
\* returns the same buffer under every topic string, and for the same bytes
\* deserialize returns the same result under every topic string; no topic
\* string brings about an error.
C22_TopicHasNoInfluence ==
    /\ call \in {"serialize", "deserialize"} =>
          \A tp \in ProbeTopics :
              \/ call = "serialize" /\ KafkaSerializer_serialize(ser_mapper, tp, data) = bytes
              \/ call = "deserialize"
                    /\ KafkaSerializer_serialize(ser_mapper, tp, data) = bytes
                    /\ KafkaDeserializer_deserialize(des_mapper, tp, bytes).res = result
                    /\ result.ok
    /\ call = "idle" =>
          \A b \in ProbeBuffers, tp \in ProbeTopics :
              KafkaDeserializer_deserialize(des_mapper, tp, b)
                  = KafkaDeserializer_deserialize(des_mapper, "t", b)

C22_EmptyTopicDecodes ==
    /\ call = "deserialize"
    /\ data = JObj([k \in {KeyK} |-> JNum(1)])
    /\ result = Ok(data)
    /\ KafkaDeserializer_deserialize(des_mapper, "", bytes).res = result
    /\ KafkaSerializer_serialize(ser_mapper, "no such topic", data) = bytes

\* C23: with_specific_avro_enabled returns a map in which specific.avro.reader
\* is "true", whatever the input had for that key; every other entry of the
\* input is there unchanged and no other key is added; the caller's map is as
\* it was; with no input the result has that one entry and no other.
C23_AvroFlagSetRestKept ==
    call = "with_specific_avro_enabled" =>
        LET before == IF avro_given.some THEN avro_given.map ELSE EmptyConfig IN
        /\ "specific.avro.reader" \in DOMAIN avro_config
        /\ avro_config["specific.avro.reader"] = "true"
        /\ DOMAIN avro_config = DOMAIN before \cup {"specific.avro.reader"}
        /\ \A k \in DOMAIN before \ {"specific.avro.reader"} : avro_config[k] = before[k]
        /\ serializer_config = avro_given
        /\ ~avro_given.some => avro_config = ("specific.avro.reader" :> "true")

C23_FalseOverridden ==
    /\ call = "with_specific_avro_enabled"
    /\ serializer_config =
           SomeMap(("specific.avro.reader" :> "false") @@ ("group.id" :> "g"))
    /\ avro_config = ("specific.avro.reader" :> "true") @@ ("group.id" :> "g")

\* C24: filter_dynamic_value on an object, under every mapper configuration:
\* every top-level key in the set of ignored names is removed, every top-level
\* key outside the set whose value is not null is kept, and the value of each
\* kept member is remove_nulls of its original value.
C24_FilterObject ==
    (call = "filter_dynamic_value" /\ data.t = "obj") =>
        /\ result.ok /\ result.v.t = "obj"
        /\ \A k \in DOMAIN data.m :
              /\ k \in mapper.ignore_type_names => k \notin DOMAIN result.v.m
              /\ (k \notin mapper.ignore_type_names /\ data.m[k].t # "null")
                    => k \in DOMAIN result.v.m
        /\ \A k \in DOMAIN result.v.m :
              /\ k \in DOMAIN data.m
              /\ result.v.m[k] = remove_nulls(data.m[k])

C24_IgnoredKeyGoneMemberCleaned ==
    /\ call = "filter_dynamic_value"
    /\ mapper.ignore_type_names = {KeyType}
    /\ ~mapper.omit_null_values
    /\ data = JObj([k \in {KeyType, KeyK} |->
                      IF k = KeyType THEN JStr(StrA) ELSE JArr(<<JNull>>)])
    /\ result.v = JObj([k \in {KeyK} |-> JArr(<<>>)])

\* C25: filter_dynamic_value on an array or a scalar is null-elision and
\* nothing else, under every mapper configuration: the result is
\* remove_nulls(tree), and the set of ignored names has no effect.
C25_FilterNonObject ==
    (call = "filter_dynamic_value" /\ data.t # "obj") =>
        result = Ok(remove_nulls(data))

\* C28: with omit_null_values = true, filter_dynamic_value on an object gives
\* remove_nulls of the object less its ignored keys, hence a tree with no null
\* at any depth, top-level members whose value is null included.
C28_FilterObjectOmitsNulls ==
    (call = "filter_dynamic_value" /\ mapper.omit_null_values /\ data.t = "obj") =>
        /\ result.v =
              remove_nulls(JObj([k \in DOMAIN data.m \ mapper.ignore_type_names
                                    |-> data.m[k]]))
        /\ ~ContainsNull(result.v)

\* C26: a mapper's configuration is immutable: no operation changes its
\* tagging mode, its omit-nulls flag or its set of ignored names.
C26_MapperNeverChanges == [][mapper' = mapper]_vars

\* C27: deserialize_with_type unwraps at most one level, at the top only: a
\* top-level value that is not an object, or an object whose "@type" is absent
\* or not a string (even with a "value" member), is decoded whole; an unwrapped
\* "value" that is itself a wrapper, and wrappers inside arrays or members,
\* are returned as they are.
C27_UnwrapOnceAtTop ==
    call = "deserialize_with_type" =>
        LET tagged == /\ data.t = "obj"
                      /\ KeyType \in DOMAIN data.m
                      /\ data.m[KeyType].t = "str"
                      /\ KeyValue \in DOMAIN data.m
        IN  /\ ~tagged => result = Ok(data)
            /\ tagged => result = Ok(data.m[KeyValue])

C27_NumberTagNotUnwrapped ==
    /\ call = "deserialize_with_type"
    /\ data = JObj([k \in {KeyType, KeyValue} |-> JNum(1)])
    /\ result = Ok(data)

\* mappers of every configuration, sets of ignored names included
AnyMapper ==
    [type_tagging : TypeTagging, omit_null_values : BOOLEAN,
     ignore_type_names : SUBSET IgnoreNames]

\* C29: what KafkaDeserializer.deserialize returns does not depend on the
\* deserializer's mapper configuration: for the same bytes every tagging mode,
\* omit-nulls flag and set of ignored names gives the same result; a type-tag
\* wrapper is unwrapped also under tagging None, and nulls in the payload come
\* back unremoved.
C29_DecoderIgnoresItsMapper ==
    /\ call = "deserialize" =>
          /\ \A m \in AnyMapper :
                KafkaDeserializer_deserialize(m, "t", bytes).res = result
          /\ (ser_mapper.type_tagging = "Adjacent" /\ ~ser_mapper.omit_null_values)
                => result = Ok(data)
    /\ call = "idle" =>
          \A b \in ProbeBuffers, m \in AnyMapper :
              KafkaDeserializer_deserialize(m, "t", b)
                  = KafkaDeserializer_deserialize(des_mapper, "t", b)

C29_PlainOmittingDecoderOnTaggedNulls ==
    /\ call = "deserialize"
    /\ ser_mapper.type_tagging = "Adjacent" /\ ~ser_mapper.omit_null_values
    /\ des_mapper.type_tagging = "None" /\ des_mapper.omit_null_values
    /\ data = JArr(<<JNull>>)
    /\ result = Ok(JArr(<<JNull>>))

\* the positions of key k in the pairs, and its values in the order of the input
Occurrences(k) == {i \in 1..Len(pairs) : pairs[i][1] = k}

RECURSIVE JoinedFrom(_, _)
JoinedFrom(k, i) ==
    IF i > Len(pairs) THEN ""
    ELSE IF pairs[i][1] # k THEN JoinedFrom(k, i + 1)
    ELSE IF \E j \in Occurrences(k) : j > i
         THEN (pairs[i][2] \o ",") \o JoinedFrom(k, i + 1)
         ELSE pairs[i][2]

\* C30: a key that occurs more than once maps to its last value under KeepLast,
\* to its first value under KeepFirst, and to all its values joined by "," in
\* the order of the input under CollectCommaSeparated; the set of keys is the
\* same under the three modes, and a key that occurs once maps to its value in
\* every mode.
C30_DuplicatesByMode ==
    call = "parse_url_encoded" =>
        LET first(k) == CHOOSE i \in Occurrences(k) : \A j \in Occurrences(k) : i <= j
            last(k) == CHOOSE i \in Occurrences(k) : \A j \in Occurrences(k) : j <= i
        IN  /\ DOMAIN parsed = {pairs[i][1] : i \in 1..Len(pairs)}
            /\ \A d \in DuplicateBehavior :
                   DOMAIN parse_url_encoded(pairs, d) = DOMAIN parsed
            /\ \A k \in DOMAIN parsed :
                   /\ dup_behavior = "KeepLast" => parsed[k] = pairs[last(k)][2]
                   /\ dup_behavior = "KeepFirst" => parsed[k] = pairs[first(k)][2]
                   /\ dup_behavior = "CollectCommaSeparated"
                          => parsed[k] = JoinedFrom(k, 1)
                   /\ Cardinality(Occurrences(k)) = 1 =>
                          \A d \in DuplicateBehavior :
                              parse_url_encoded(pairs, d)[k] = pairs[first(k)][2]

C30_FirstOfThreeKept ==
    /\ call = "parse_url_encoded"
    /\ pairs = <<<<"k", "a">>, <<"k", "b">>, <<"k", "">>>>
    /\ dup_behavior = "KeepFirst"
    /\ parsed = [x \in {"k"} |-> "a"]
    /\ parse_url_encoded(pairs, "KeepLast") = [x \in {"k"} |-> ""]
    /\ parse_url_encoded(pairs, "CollectCommaSeparated") = [x \in {"k"} |-> "a,b,"]

=============================================================================
